---- MODULE Spec2Model ----
(***************************************************************************)
(* NestedField resolution of parcels, as narrated and exercised by         *)
(* parcels/examples/tutorial_NestedFields.ipynb.                           *)
(*                                                                         *)
(* A NestedField is an ordered list of Fields.  Sampling it at a point     *)
(* interpolates the Fields one after the other: the first Field that does  *)
(* not throw ErrorOutOfBounds stops the search (with its value, or with    *)
(* the other error it threw); when the last Field throws ErrorOutOfBounds  *)
(* too, the particle is flagged out of bounds.                             *)
(***************************************************************************)
EXTENDS Integers, Sequences, FiniteSets, TLC

(***************************************************************************)
(* Bounds of the model.                                                    *)
(***************************************************************************)
MaxFields == 3         \* longest NestedField list of the chain specification
NPoints == 1           \* query points of the chain specification
RepeatFields == 2      \* longest NestedField list of the repeated calls
RepeatPoints == 2      \* query points of the repeated / pair / concurrent calls
NCallers == 2          \* independent callers (particles) sampling concurrently

(***************************************************************************)
(* Outcomes.  A sampling attempt of one Field yields a value or throws;    *)
(* values and failures are records of one shape.                           *)
(***************************************************************************)
Values == {-1, 0, 1}

\* What a Field throws outside its grid.
ErrorOutOfBounds == "ErrorOutOfBounds"

\* An error other than ErrorOutOfBounds.
OtherSamplingError == "OtherSamplingError"

\* Variant: no failure of its own, the ErrorOutOfBounds of the last Field.
OutOfBoundsSingle == "ErrorOutOfBounds"

\* The particle is out of bounds of every Field of the list.
OutOfBoundsAll == "OutOfBoundsAll"

Value(v) == [kind |-> "value", v |-> v]
Failure(e) == [kind |-> e, v |-> 0]
NoOutcome == [kind |-> "none", v |-> 0]

SampleOutcomes ==
    {Value(v) : v \in Values}
        \cup {Failure(ErrorOutOfBounds), Failure(OtherSamplingError)}

\* The three kinds of outcome, with one value.
CoverOutcomes ==
    {Value(1), Failure(ErrorOutOfBounds), Failure(OtherSamplingError)}

VARIABLES
    src,        \* the Fields: src[s][p] is what Field s yields at point p
    fieldset,   \* the NestedFields: fieldset[f] is the ordered list of Fields
    pc,         \* pc[c]: "idle", "sampling" or "done"
    nf,         \* nf[c]: the NestedField caller c samples
    point,      \* point[c]: the query point of caller c
    index,      \* index[c]: position in the list of the Field tried next
    tried,      \* tried[c]: positions interpolated so far in this call
    outcome,    \* outcome[c]: what the call returned or raised
    answered,   \* answered[c]: position of the Field that gave the value
    watched,    \* the points whose completed calls are recorded
    history,    \* completed calls at watched points: (nf, point, outcome, answered)
    replay      \* 0, then 1 once a call at a watched point completed, 2 once
                \* a call elsewhere completed after it, 3 once a call at a
                \* watched point completed after that

vars ==
    <<src, fieldset, pc, nf, point, index, tried, outcome, answered, watched,
      history, replay>>

Callers == DOMAIN pc
Sources == DOMAIN src
Nested == DOMAIN fieldset
Points == DOMAIN src[CHOOSE s \in Sources : TRUE]

\* Variant: the list is walked from its last Field to its first.
FieldsReversed(c) ==
    [i \in 1..Len(fieldset[nf[c]]) |->
        fieldset[nf[c]][Len(fieldset[nf[c]]) + 1 - i]]

\* The list of Fields of the NestedField caller c samples, in its order.
Fields(c) == fieldset[nf[c]]

\* Variant: one position kept on the NestedField, shared by all callers.
OwnShared(c) == 1

\* The algorithm runs for each particle: every caller has a position of its own.
Own(c) == c

Cursor(c) == index[Own(c)]

(***************************************************************************)
(* The algorithm, step by step.                                            *)
(***************************************************************************)
\* Variant: the first Field is skipped when there is a second one.
StartIndexSecond(c) == IF Len(Fields(c)) > 1 THEN 2 ELSE 1

\* Variant: start with the Field that answered the caller's previous call.
StartIndexMemo(c) == IF answered[c] > 0 THEN answered[c] ELSE 1

\* Step 1: the first Field of the list is interpolated first.
StartIndex(c) == 1

\* Variant: every other Field of the list.
NextIndexSkip(i) == i + 2

\* Step 3: the next Field of the list.
NextIndex(i) == i + 1

\* Variant: a zero value is taken for a miss.
IsOutOfBoundsOrZero(r) ==
    \/ r.kind = ErrorOutOfBounds
    \/ r.kind = "value" /\ r.v = 0

\* Variant: no error makes the search go on.
IsOutOfBoundsNever(r) == FALSE

\* Variant: every error makes the search go on.
IsAnyError(r) == r.kind # "value"

\* Steps 2 and 3: ErrorOutOfBounds alone makes the search go on.
IsOutOfBounds(r) == r.kind = ErrorOutOfBounds

\* Variant: a zero is returned when no Field covers the point.
FlaggedZeroFill == Value(0)

\* Step 4: every Field threw ErrorOutOfBounds.
Flagged == Failure(OutOfBoundsAll)

\* The interpolation of the current Field at the query point.
Attempt(c) == src[Fields(c)[Cursor(c)]][point[c]]

Sampling(c) ==
    /\ pc[c] = "sampling"
    /\ Cursor(c) \in 1..Len(Fields(c))

\* Variant: the Field that gave the value is moved to the head of the list.
FinishMoveToFront(c, r, k) ==
    /\ pc' = [pc EXCEPT ![c] = "done"]
    /\ outcome' = [outcome EXCEPT ![c] = r]
    /\ answered' = [answered EXCEPT ![c] = k]
    /\ tried' = [tried EXCEPT ![c] = Append(@, Cursor(c))]
    /\ history' =
           IF point[c] \in watched
           THEN history \cup {[nf |-> nf[c], point |-> point[c],
                                outcome |-> r, answered |-> k]}
           ELSE history
    /\ replay' =
           IF point[c] \in watched
           THEN (IF replay = 0 THEN 1 ELSE IF replay = 2 THEN 3 ELSE replay)
           ELSE (IF replay = 1 THEN 2 ELSE replay)
    /\ fieldset' =
           IF k > 1
           THEN [fieldset EXCEPT ![nf[c]] =
                    <<@[k]>> \o SubSeq(@, 1, k - 1) \o SubSeq(@, k + 1, Len(@))]
           ELSE fieldset
    /\ UNCHANGED <<src, nf, point, index, watched>>

\* The function is stopped: the call ends with r, answered by position k.
Finish(c, r, k) ==
    /\ pc' = [pc EXCEPT ![c] = "done"]
    /\ outcome' = [outcome EXCEPT ![c] = r]
    /\ answered' = [answered EXCEPT ![c] = k]
    /\ tried' = [tried EXCEPT ![c] = Append(@, Cursor(c))]
    /\ history' =
           IF point[c] \in watched
           THEN history \cup {[nf |-> nf[c], point |-> point[c],
                                outcome |-> r, answered |-> k]}
           ELSE history
    /\ replay' =
           IF point[c] \in watched
           THEN (IF replay = 0 THEN 1 ELSE IF replay = 2 THEN 3 ELSE replay)
           ELSE (IF replay = 1 THEN 2 ELSE replay)
    /\ UNCHANGED <<src, fieldset, nf, point, index, watched>>

\* A caller samples NestedField f at point p.
Call(c, f, p) ==
    /\ pc[c] # "sampling"
    /\ pc' = [pc EXCEPT ![c] = "sampling"]
    /\ nf' = [nf EXCEPT ![c] = f]
    /\ point' = [point EXCEPT ![c] = p]
    /\ index' = [index EXCEPT ![Own(c)] = StartIndex(c)]
    /\ tried' = [tried EXCEPT ![c] = <<>>]
    /\ outcome' = [outcome EXCEPT ![c] = NoOutcome]
    /\ answered' = [answered EXCEPT ![c] = 0]
    /\ UNCHANGED <<src, fieldset, watched, history, replay>>

\* Step 2, first half: the interpolation succeeds, the function is stopped.
SampleSuccess(c) ==
    /\ Sampling(c)
    /\ ~IsOutOfBounds(Attempt(c))
    /\ Attempt(c).kind = "value"
    /\ Finish(c, Attempt(c), Cursor(c))

\* Variant: the other error of a Field after the first is reported as the
\* particle being out of bounds.
SampleOtherErrorMasked(c) ==
    /\ Sampling(c)
    /\ ~IsOutOfBounds(Attempt(c))
    /\ Attempt(c).kind # "value"
    /\ Finish(c, IF Cursor(c) > 1 THEN Flagged ELSE Attempt(c), 0)

\* Step 2, second half: another error is thrown, the function is stopped.
SampleOtherError(c) ==
    /\ Sampling(c)
    /\ ~IsOutOfBounds(Attempt(c))
    /\ Attempt(c).kind # "value"
    /\ Finish(c, Attempt(c), 0)

\* Step 3: ErrorOutOfBounds, try again with the next Field.
SampleOutOfBounds(c) ==
    /\ Sampling(c)
    /\ IsOutOfBounds(Attempt(c))
    /\ Cursor(c) < Len(Fields(c))
    /\ index' = [index EXCEPT ![Own(c)] = NextIndex(@)]
    /\ tried' = [tried EXCEPT ![c] = Append(@, Cursor(c))]
    /\ UNCHANGED <<src, fieldset, pc, nf, point, outcome, answered, watched,
                   history, replay>>

\* Variant: the end of the list is looked for one position too far.
SampleOutOfBoundsLastOffByOne(c) ==
    /\ Sampling(c)
    /\ IsOutOfBounds(Attempt(c))
    /\ Cursor(c) = Len(Fields(c)) + 1
    /\ Finish(c, Flagged, 0)

\* Step 4: the last Field throws ErrorOutOfBounds too.
SampleOutOfBoundsLast(c) ==
    /\ Sampling(c)
    /\ IsOutOfBounds(Attempt(c))
    /\ Cursor(c) = Len(Fields(c))
    /\ Finish(c, Flagged, 0)

Next ==
    \/ \E c \in Callers, f \in Nested, p \in Points : Call(c, f, p)
    \/ \E c \in Callers : SampleSuccess(c)
    \/ \E c \in Callers : SampleOtherError(c)
    \/ \E c \in Callers : SampleOutOfBounds(c)
    \/ \E c \in Callers : SampleOutOfBoundsLast(c)

(***************************************************************************)
(* Initial states.                                                         *)
(***************************************************************************)
\* n callers, none of them sampling yet.
InitCallers(n) ==
    /\ pc = [c \in 1..n |-> "idle"]
    /\ nf = [c \in 1..n |-> CHOOSE f \in Nested : TRUE]
    /\ point = [c \in 1..n |-> CHOOSE p \in Points : TRUE]
    /\ index = [c \in 1..n |-> 0]
    /\ tried = [c \in 1..n |-> <<>>]
    /\ outcome = [c \in 1..n |-> NoOutcome]
    /\ answered = [c \in 1..n |-> 0]
    /\ history = {}
    /\ replay = 0

\* One NestedField F over Fields 1..n listed in that order, each Field
\* yielding one of the outcomes outs at every point.
InitChainOf(maxn, npoints, outs) ==
    /\ \E n \in 1..maxn :
          /\ src \in [1..n -> [1..npoints -> outs]]
          /\ fieldset = [f \in {"F"} |-> [i \in 1..n |-> i]]

\* Chain specification: one caller, any list of 1..MaxFields Fields.
Init ==
    /\ InitChainOf(MaxFields, NPoints, SampleOutcomes)
    /\ InitCallers(1)
    /\ watched = {}

Spec == Init /\ [][Next]_vars

\* One step of the call of caller c: the interpolation of one Field and what
\* follows from it.
Step(c) ==
    \/ SampleSuccess(c)
    \/ SampleOtherError(c)
    \/ SampleOutOfBounds(c)
    \/ SampleOutOfBoundsLast(c)

\* The chain specification with a call that goes on: every interpolation
\* returns, and the function takes its next step.
SpecLive == Init /\ [][Next]_vars /\ WF_vars(Step(1))

\* Repeated calls: one caller, several points, one of them watched.
InitRepeat ==
    /\ InitChainOf(RepeatFields, RepeatPoints, CoverOutcomes)
    /\ InitCallers(1)
    /\ \E p \in Points : watched = {p}

SpecRepeat == InitRepeat /\ [][Next]_vars

\* One NestedField F over two Fields A and B listed in either order.
InitPairOf(npoints, outs) ==
    /\ src \in [{"A", "B"} -> [1..npoints -> outs]]
    /\ fieldset \in [{"F"} -> {<<"A", "B">>, <<"B", "A">>}]

\* Two Fields: one caller.
InitPair ==
    /\ InitPairOf(RepeatPoints, SampleOutcomes)
    /\ InitCallers(1)
    /\ watched = {}

SpecPair == InitPair /\ [][Next]_vars

\* Concurrent calls: several callers sampling the same NestedField.
InitConc ==
    /\ InitPairOf(RepeatPoints, CoverOutcomes)
    /\ InitCallers(NCallers)
    /\ watched = {}

SpecConc == InitConc /\ [][Next]_vars

(***************************************************************************)
(* The tutorial: F1 (ones) on the grid of U1, F2 (twos) on the grid of U2, *)
(* F = NestedField('F', [F1, F2]), sampled by SampleNestedFieldIndex.      *)
(***************************************************************************)
\* lon, lat = linspace(0, 2e3), linspace(0, 2e3)
Grid1 == [lonmin |-> 0, lonmax |-> 2000, latmin |-> 0, latmax |-> 2000]

\* lon, lat = linspace(-2e3, 18e3), linspace(-1e3, 3e3)
Grid2 == [lonmin |-> -2000, lonmax |-> 18000, latmin |-> -1000, latmax |-> 3000]

\* Variant: F1 built on the grid of U2.
TutorialGridMixed ==
    [F1 |-> Grid2, F2 |-> Grid2, U1 |-> Grid1, U2 |-> Grid2,
     V1 |-> Grid1, V2 |-> Grid2]

\* V1 and F1 share the grid of U1; V2 and F2 share the grid of U2.
TutorialGrid ==
    [F1 |-> Grid1, F2 |-> Grid2, U1 |-> Grid1, U2 |-> Grid2,
     V1 |-> Grid1, V2 |-> Grid2]

\* F1 = ones, F2 = 2 * ones, U1 = ones, U2 = ones
TutorialData == [F1 |-> 1, F2 |-> 2, U1 |-> 1, U2 |-> 1]

\* Variant: the coarse Field listed first.
TutorialFSwapped == <<"F2", "F1">>

\* F = NestedField('F', [F1, F2])
TutorialF == <<"F1", "F2">>

\* Particle positions <<lon, lat>> the kernel is executed at.
TutorialLons == {-3000, -2000, 0, 1000, 2000, 2010, 10000, 18000, 19000}
TutorialLats == {-2000, -1000, 500, 1000, 2000, 3000, 3500}
TutorialPoints == TutorialLons \X TutorialLats

InGrid(g, p) ==
    /\ g.lonmin <= p[1] /\ p[1] <= g.lonmax
    /\ g.latmin <= p[2] /\ p[2] <= g.latmax

\* Interpolating a Field of constant data: the constant inside its grid,
\* ErrorOutOfBounds outside.
FieldSample(s, p) ==
    IF InGrid(TutorialGrid[s], p)
    THEN Value(TutorialData[s])
    ELSE Failure(ErrorOutOfBounds)

\* 1000 * cos(k * pi / 4)
CosQuarter(k) ==
    CASE k % 8 = 0 -> 1000
      [] k % 8 \in {1, 7} -> 707
      [] k % 8 \in {2, 6} -> 0
      [] k % 8 \in {3, 5} -> -707
      [] k % 8 = 4 -> -1000

\* Linear interpolation between the node at lon0 (v0) and the next one (v1).
Interp(lon, lon0, dx, v0, v1) == v0 + ((v1 - v0) * (lon - lon0)) \div dx

\* V1_data = cos(lon / 200 * pi/2) on nodes 100 apart, in thousandths.
V1Data(lon) ==
    Interp(lon, 100 * (lon \div 100), 100,
           CosQuarter(lon \div 100), CosQuarter((lon \div 100) + 1))

\* V2_data = cos(lon / 200 * pi/2) on nodes 2000 apart, in thousandths:
\* 1000 on the even nodes, -1000 on the odd ones.
V2Data(lon) ==
    Interp(lon, 2000 * (lon \div 2000), 2000,
           IF (lon \div 2000) % 2 = 0 THEN 1000 ELSE -1000,
           IF (lon \div 2000) % 2 = 0 THEN -1000 ELSE 1000)

\* Interpolating any Field of the tutorial; V in thousandths.
TutorialSample(s, p) ==
    IF s \in {"V1", "V2"}
    THEN IF InGrid(TutorialGrid[s], p)
         THEN Value(IF s = "V1" THEN V1Data(p[1]) ELSE V2Data(p[1]))
         ELSE Failure(ErrorOutOfBounds)
    ELSE FieldSample(s, p)

\* Variant: the coarse Field listed first.
TutorialUSwapped == <<"U2", "U1">>

\* U = NestedField('U', [U1, U2]); V = NestedField('V', [V1, V2])
TutorialU == <<"U1", "U2">>
TutorialV == <<"V1", "V2">>

\* Positions at which U, V and F are compared: on and next to the eastern
\* edge of the grid of U1, beyond its northern edge, and outside both grids.
NestedPoints == {0, 2000, 2010, 19000} \X {1000, 3000, 3500}

\* fieldset = FieldSet(U, V); fieldset.add_field(F): the three NestedFields
\* sampled at those positions, the calls at one position recorded.
InitNested ==
    /\ src = [s \in {"U1", "U2", "V1", "V2", "F1", "F2"} |->
                 [p \in NestedPoints |-> TutorialSample(s, p)]]
    /\ fieldset = [f \in {"U", "V", "F"} |->
                      IF f = "U" THEN TutorialU
                      ELSE IF f = "V" THEN TutorialV ELSE TutorialF]
    /\ InitCallers(1)
    /\ \E p \in Points : watched = {p}

InitTutorial ==
    /\ src = [s \in {"F1", "F2"} |-> [p \in TutorialPoints |-> FieldSample(s, p)]]
    /\ fieldset = [f \in {"F"} |-> TutorialF]
    /\ InitCallers(1)
    /\ watched = {<<1000, 500>>}

\* No Field of the tutorial throws anything but ErrorOutOfBounds.
NextTutorial ==
    \/ \E c \in Callers, f \in Nested, p \in Points : Call(c, f, p)
    \/ \E c \in Callers : SampleSuccess(c)
    \/ \E c \in Callers : SampleOutOfBounds(c)
    \/ \E c \in Callers : SampleOutOfBoundsLast(c)

SpecTutorial == InitTutorial /\ [][NextTutorial]_vars

SpecNested == InitNested /\ [][NextTutorial]_vars

(***************************************************************************)
(* The tutorial run: one particle released at lon = 0, lat = 1000 and      *)
(* advected for runtime = 14000 in steps of dt = 10.  A position of the    *)
(* run is <<lon, lat, time>>.  The zonal velocity is the value U resolves  *)
(* at the particle's position; the meridional displacement is left out,    *)
(* the particle keeps the latitude of its release.                         *)
(***************************************************************************)
Runtime == 14000
Dt == 10
ReleaseLon == 0
ReleaseLat == 1000

\* The positions a particle moving east by Dt per step can take in the run.
TrajectoryPoints ==
    {<<ReleaseLon + Dt * n, ReleaseLat, Dt * n>> : n \in 0..(Runtime \div Dt)}

\* fieldset = FieldSet(U, V), pset = ParticleSet(fieldset, lon=[0],
\* lat=[1000]); every call of the run is recorded.
InitTrajectory ==
    /\ src = [s \in {"U1", "U2"} |->
                 [p \in TrajectoryPoints |-> TutorialSample(s, p)]]
    /\ fieldset = [f \in {"U"} |-> TutorialU]
    /\ pc = [c \in 1..1 |-> "idle"]
    /\ nf = [c \in 1..1 |-> "U"]
    /\ point = [c \in 1..1 |-> <<ReleaseLon, ReleaseLat, 0>>]
    /\ index = [c \in 1..1 |-> 0]
    /\ tried = [c \in 1..1 |-> <<>>]
    /\ outcome = [c \in 1..1 |-> NoOutcome]
    /\ answered = [c \in 1..1 |-> 0]
    /\ history = {}
    /\ replay = 0
    /\ watched = TrajectoryPoints

\* One execution of the kernel begins while the run lasts: U is sampled at
\* the particle's position.
Execute(c) ==
    /\ pc[c] = "idle"
    /\ point[c][3] < Runtime
    /\ Call(c, "U", point[c])

\* The kernel moves the particle by the velocity it sampled, over dt.
Advect(c) ==
    /\ pc[c] = "done"
    /\ outcome[c].kind = "value"
    /\ point' = [point EXCEPT ![c] =
                     <<@[1] + outcome[c].v * Dt, @[2], @[3] + Dt>>]
    /\ pc' = [pc EXCEPT ![c] = "idle"]
    /\ UNCHANGED <<src, fieldset, nf, index, tried, outcome, answered,
                   watched, history, replay>>

\* No position of the run lies outside the grid of U2, the last Field.
NextTrajectory ==
    \/ \E c \in Callers : Execute(c)
    \/ \E c \in Callers : SampleSuccess(c)
    \/ \E c \in Callers : SampleOutOfBounds(c)
    \/ \E c \in Callers : Advect(c)

SpecTrajectory == InitTrajectory /\ [][NextTrajectory]_vars

(***************************************************************************)
(* The algorithm run by one caller alone, from position i of list fs.      *)
(***************************************************************************)
RECURSIVE RunAlone(_, _, _)
RunAlone(fs, p, i) ==
    IF i > Len(fs)
    THEN [outcome |-> Failure(OutOfBoundsAll), answered |-> 0]
    ELSE IF src[fs[i]][p].kind = ErrorOutOfBounds
         THEN RunAlone(fs, p, i + 1)
         ELSE [outcome |-> src[fs[i]][p],
               answered |-> IF src[fs[i]][p].kind = "value" THEN i ELSE 0]

(***************************************************************************)
(* Properties.                                                             *)
(***************************************************************************)
\* What the Field at position i of the caller's list yields at its point.
At(c, i) == src[fieldset[nf[c]][i]][point[c]]

Size(c) == Len(fieldset[nf[c]])

Done(c) == pc[c] = "done"

TriedSet(c) == {tried[c][i] : i \in 1..Len(tried[c])}

OrderAB == fieldset["F"] = <<"A", "B">>
OrderBA == fieldset["F"] = <<"B", "A">>

\* C1: when the lowest-index Field that is not out of bounds at the point
\* yields a value, a completed call returns exactly that value (zero and
\* negative values included), reports that position, and has interpolated no
\* Field listed after it.
C1_LowestInBoundsWins ==
    \A c \in Callers : Done(c) =>
        \A k \in 1..Size(c) :
            (/\ At(c, k).kind = "value"
             /\ \A j \in 1..(k - 1) : At(c, j).kind = ErrorOutOfBounds)
            => /\ outcome[c] = At(c, k)
               /\ answered[c] = k
               /\ \A j \in (k + 1)..Size(c) : j \notin TriedSet(c)

\* A call over three or more Fields answered by the second one with a value
\* that is not positive, while the third Field covers the point too with
\* another value.
C1_Witness ==
    \E c \in Callers :
        /\ Done(c) /\ Size(c) >= 3
        /\ At(c, 1).kind = ErrorOutOfBounds
        /\ At(c, 2).kind = "value" /\ At(c, 2).v <= 0
        /\ At(c, 3).kind = "value" /\ At(c, 3) # At(c, 2)
        /\ outcome[c] = At(c, 2) /\ answered[c] = 2

\* C2 (P1): with the list [A, B], a call at a point A covers returns the value
\* of A and is answered by position 1, never by B, whether or not B covers
\* the point too.
C2_PriorityOrder ==
    \A c \in Callers :
        (Done(c) /\ OrderAB /\ src["A"][point[c]].kind = "value")
        => /\ outcome[c] = src["A"][point[c]]
           /\ answered[c] = 1
           /\ tried[c] = <<1>>

\* [A, B] sampled where both cover the point with different values.
C2_Witness ==
    \E c \in Callers :
        /\ Done(c) /\ OrderAB
        /\ src["A"][point[c]].kind = "value"
        /\ src["B"][point[c]].kind = "value"
        /\ src["B"][point[c]] # src["A"][point[c]]
        /\ outcome[c] = src["A"][point[c]]

\* C3 (P2): with the list [A, B], a call at a point where A is out of bounds
\* and B yields a value returns the value of B, answered by position 2.
C3_Fallback ==
    \A c \in Callers :
        (/\ Done(c) /\ OrderAB
         /\ src["A"][point[c]].kind = ErrorOutOfBounds
         /\ src["B"][point[c]].kind = "value")
        => /\ outcome[c] = src["B"][point[c]]
           /\ answered[c] = 2
           /\ tried[c] = <<1, 2>>

\* [A, B] sampled where only B covers the point.
C3_Witness ==
    \E c \in Callers :
        /\ Done(c) /\ OrderAB
        /\ src["A"][point[c]].kind = ErrorOutOfBounds
        /\ src["B"][point[c]].kind = "value"
        /\ outcome[c] = src["B"][point[c]]

\* C4 (P3): when every Field of the list is out of bounds at the point, a
\* completed call ends with OutOfBoundsAll, which is not the ErrorOutOfBounds
\* of a single Field; and a call ends with OutOfBoundsAll only after every
\* Field, the last one included, was interpolated and was out of bounds.
C4_Exhaustion ==
    \A c \in Callers : Done(c) =>
        /\ (\A i \in 1..Size(c) : At(c, i).kind = ErrorOutOfBounds)
            => /\ outcome[c] = Failure(OutOfBoundsAll)
               /\ outcome[c].kind # ErrorOutOfBounds
               /\ answered[c] = 0
        /\ outcome[c].kind = OutOfBoundsAll
            => /\ \A i \in 1..Size(c) : At(c, i).kind = ErrorOutOfBounds
               /\ tried[c] = [i \in 1..Size(c) |-> i]

\* A list of two or more Fields, none covering the point, sampled to the end.
C4_Witness ==
    \E c \in Callers :
        /\ Done(c) /\ Size(c) >= 2
        /\ \A i \in 1..Size(c) : At(c, i).kind = ErrorOutOfBounds
        /\ outcome[c].kind = OutOfBoundsAll
        /\ Len(tried[c]) = Size(c)

\* C5 (P4): with the list [A, B], when A throws an error other than
\* ErrorOutOfBounds at the point, the call ends with that error and B is not
\* interpolated, whatever B would yield there.
C5_OtherErrorPropagates ==
    \A c \in Callers :
        (/\ Done(c) /\ OrderAB
         /\ src["A"][point[c]].kind = OtherSamplingError)
        => /\ outcome[c] = src["A"][point[c]]
           /\ outcome[c].kind = OtherSamplingError
           /\ answered[c] = 0
           /\ tried[c] = <<1>>

\* [A, B] sampled where A throws the other error and B would yield a value.
C5_Witness ==
    \E c \in Callers :
        /\ Done(c) /\ OrderAB
        /\ src["A"][point[c]].kind = OtherSamplingError
        /\ src["B"][point[c]].kind = "value"
        /\ outcome[c].kind = OtherSamplingError

\* C6 (P5): at a point both A and B cover, the list [B, A] returns the value
\* of B and the list [A, B] returns the value of A: the Field that answers is
\* the one listed first.
C6_OrderSensitivity ==
    \A c \in Callers :
        (/\ Done(c)
         /\ src["A"][point[c]].kind = "value"
         /\ src["B"][point[c]].kind = "value")
        => /\ OrderBA => /\ outcome[c] = src["B"][point[c]]
                         /\ answered[c] > 0
                         /\ fieldset["F"][answered[c]] = "B"
           /\ OrderAB => /\ outcome[c] = src["A"][point[c]]
                         /\ answered[c] > 0
                         /\ fieldset["F"][answered[c]] = "A"

\* [B, A] sampled where both cover the point with different values: B answers.
C6_Witness ==
    \E c \in Callers :
        /\ Done(c) /\ OrderBA
        /\ src["A"][point[c]].kind = "value"
        /\ src["B"][point[c]].kind = "value"
        /\ src["A"][point[c]] # src["B"][point[c]]
        /\ outcome[c] = src["B"][point[c]]

\* C7 (P6): all completed calls of the same NestedField at the same point,
\* whatever calls came between them, have the same outcome and report the
\* same position.
C7_SameOutcomeEveryCall ==
    \A h1, h2 \in history :
        (h1.nf = h2.nf /\ h1.point = h2.point)
        => (h1.outcome = h2.outcome /\ h1.answered = h2.answered)

\* A second completed call at the watched point, answered by the first Field,
\* after a call at another point completed since the first one.
C7_Witness ==
    \E c \in Callers :
        /\ Done(c) /\ replay = 3
        /\ point[c] \in watched
        /\ answered[c] = 1
        /\ Size(c) >= 2

\* C8: in the tutorial, the particle at (lon=1000, lat=500) is answered by the
\* first Field, F1, and reports 1; the particle at (lon=10000, lat=500) is
\* answered by the second Field, F2, and reports 2.
C8_TutorialIndex ==
    \A c \in Callers : Done(c) =>
        /\ point[c] = <<1000, 500>>
            => /\ answered[c] = 1
               /\ fieldset[nf[c]][1] = "F1"
               /\ outcome[c] = Value(1)
        /\ point[c] = <<10000, 500>>
            => /\ answered[c] = 2
               /\ fieldset[nf[c]][2] = "F2"
               /\ outcome[c] = Value(2)

\* The kernel executed at (1000, 500) and then at (10000, 500).
C8_Witness ==
    \E c \in Callers :
        /\ Done(c) /\ point[c] = <<10000, 500>> /\ outcome[c].v = 2
        /\ \E h \in history : h.point = <<1000, 500>> /\ h.outcome.v = 1

\* C9: a completed call ends with a value that one of the interpolated Fields
\* yielded at the point, with OutOfBoundsAll when every Field is out of
\* bounds, or with the other error that one of the interpolated Fields threw;
\* it never ends with the ErrorOutOfBounds of a single Field.
C9_OutcomeKinds ==
    \A c \in Callers : Done(c) =>
        /\ outcome[c].kind \in {"value", OutOfBoundsAll, OtherSamplingError}
        /\ outcome[c].kind # ErrorOutOfBounds
        /\ outcome[c].kind = "value"
            => \E i \in TriedSet(c) : At(c, i) = outcome[c]
        /\ outcome[c].kind = OtherSamplingError
            => \E i \in TriedSet(c) : At(c, i) = outcome[c]
        /\ outcome[c].kind = OutOfBoundsAll
            => \A i \in 1..Size(c) : At(c, i).kind = ErrorOutOfBounds

\* A list of one Field that is out of bounds at the point, sampled.
C9_Witness ==
    \E c \in Callers :
        /\ Done(c) /\ Size(c) = 1
        /\ At(c, 1).kind = ErrorOutOfBounds
        /\ outcome[c] = Failure(OutOfBoundsAll)

\* C10: with several callers sampling the same NestedField at once, every
\* completed call has the outcome and reports the position that the
\* algorithm run alone yields for its point.
C10_ConcurrentAsAlone ==
    \A c \in Callers : Done(c) =>
        /\ outcome[c] = RunAlone(fieldset[nf[c]], point[c], 1).outcome
        /\ answered[c] = RunAlone(fieldset[nf[c]], point[c], 1).answered

\* A call answered by the second Field has completed while another caller is
\* in the middle of a call at another point.
C10_Witness ==
    \E c, d \in Callers :
        /\ c # d
        /\ Done(c) /\ answered[c] = 2
        /\ pc[d] = "sampling" /\ index[d] = 2 /\ tried[d] = <<1>>
        /\ point[c] # point[d]

\* C11: when a Field at a position after the first throws an error other
\* than ErrorOutOfBounds and every Field before it was out of bounds, a
\* completed call ends with exactly that error, not with OutOfBoundsAll, and
\* no Field listed after it was interpolated.
C11_LaterOtherErrorSurfaces ==
    \A c \in Callers : Done(c) =>
        \A k \in 2..Size(c) :
            (/\ At(c, k).kind = OtherSamplingError
             /\ \A j \in 1..(k - 1) : At(c, j).kind = ErrorOutOfBounds)
            => /\ outcome[c] = At(c, k)
               /\ outcome[c].kind # OutOfBoundsAll
               /\ answered[c] = 0
               /\ tried[c] = [i \in 1..k |-> i]

\* A list of three or more Fields: the first out of bounds, the second throws
\* the other error, the third would yield a value; the call ended on the
\* second.
C11_Witness ==
    \E c \in Callers :
        /\ Done(c) /\ Size(c) >= 3
        /\ At(c, 1).kind = ErrorOutOfBounds
        /\ At(c, 2).kind = OtherSamplingError
        /\ At(c, 3).kind = "value"
        /\ outcome[c].kind = OtherSamplingError
        /\ tried[c] = <<1, 2>>

\* C12: within one call the Fields are interpolated in list order from the
\* first one, none skipped and none twice; every Field interpolated before the
\* latest one was out of bounds; the position tried next follows the latest
\* one; and a completed call interpolated nothing after the Field that gave a
\* value or threw another error.
C12_SamplingOrder ==
    \A c \in Callers : pc[c] # "idle" =>
        /\ tried[c] = [i \in 1..Len(tried[c]) |-> i]
        /\ Len(tried[c]) <= Size(c)
        /\ \A i \in 1..(Len(tried[c]) - 1) : At(c, i).kind = ErrorOutOfBounds
        /\ pc[c] = "sampling"
            => /\ index[c] = Len(tried[c]) + 1
               /\ \A i \in 1..Len(tried[c]) : At(c, i).kind = ErrorOutOfBounds
        /\ Done(c)
            => /\ Len(tried[c]) >= 1
               /\ At(c, Len(tried[c])).kind # ErrorOutOfBounds
                    => outcome[c] = At(c, Len(tried[c]))

\* A call over three or more Fields that interpolated the first three in
\* order and was answered by the third.
C12_Witness ==
    \E c \in Callers :
        /\ Done(c) /\ Size(c) >= 3
        /\ tried[c] = <<1, 2, 3>>
        /\ answered[c] = 3

\* C13: a call never makes more interpolations than the list has Fields, a
\* completed call made at least one, it made as many as the list has Fields
\* only when every Field but the last was out of bounds, and every call that
\* has started completes.
C13_Terminates ==
    /\ [](/\ Len(tried[1]) <= Len(fieldset[nf[1]])
          /\ pc[1] = "done"
              => /\ Len(tried[1]) >= 1
                 /\ Len(tried[1]) = Len(fieldset[nf[1]])
                      => \A i \in 1..(Len(fieldset[nf[1]]) - 1) :
                             src[fieldset[nf[1]][i]][point[1]].kind
                                 = ErrorOutOfBounds)
    /\ (pc[1] = "sampling") ~> (pc[1] = "done")

\* A call over two or more Fields that interpolated every one of them and
\* ended with the other error of the last.
C13_Witness ==
    \E c \in Callers :
        /\ Done(c) /\ Size(c) >= 2
        /\ Len(tried[c]) = Size(c)
        /\ outcome[c].kind = OtherSamplingError

\* C14: no step of any call, whatever its outcome, changes a NestedField
\* list (its Fields and their order) or what a Field yields.
C14_SetUnchanged == [][fieldset' = fieldset /\ src' = src]_vars

\* After a call at the watched point, a call elsewhere and a call at the
\* watched point again, the latest one answered by the second Field, the list
\* is the one constructed.
C14_Witness ==
    \E c \in Callers :
        /\ Done(c) /\ replay = 3
        /\ answered[c] = 2
        /\ fieldset[nf[c]] = [i \in 1..Size(c) |-> i]

\* C15: the NestedFields U, V and F, whose Fields at each position share a
\* grid, are answered at the same point by the same position of their lists;
\* and the value F reports there is the position that answered U and V.
C15_SameIndexOnSharedGrids ==
    \A h1, h2 \in history :
        h1.point = h2.point
        => /\ h1.answered = h2.answered
           /\ h1.outcome.kind = h2.outcome.kind
           /\ (h1.nf = "F" /\ h1.outcome.kind = "value")
                => h1.outcome.v = h2.answered

\* U, V and F were all sampled at a point outside the grid of U1 and inside
\* that of U2, and the second Field of each answered.
C15_Witness ==
    /\ \A f \in {"U", "V", "F"} :
          \E h \in history : h.nf = f /\ h.answered = 2
    /\ \E h \in history : h.nf = "F" /\ h.outcome = Value(2)

TypeOK ==
    /\ \A c \in Callers : pc[c] \in {"idle", "sampling", "done"}
    /\ \A c \in Callers : index[c] \in 0..Len(Fields(c))
====
